---- MODULE Spec2Model ----
(***************************************************************************)
(* A model of the Maze class of mazeSolver (src/main.py): the constructor  *)
(* that reads the maze text, the cell grid, the breadth-first and          *)
(* depth-first searches as the loops the code runs, __str__ and the two    *)
(* renderers with their cached solutions.                                  *)
(***************************************************************************)
EXTENDS Integers, Sequences, FiniteSets, TLC

\* A grid has at most MaxCells cells (rows * columns).
MaxCells == 6

\* A maze text that is parsed has at most MaxTextLen characters.
MaxTextLen == 6

\* Python's None for the list- and string-valued fields: no path and no
\* rendering of a valid grid is empty.
None == <<>>

\* CellType members, and each member's value (its character).
FREE == "FREE"
WALL == "WALL"
START == "START"
END == "END"
CellType == {FREE, WALL, START, END}

CellValue(ct) ==
    CASE ct = FREE -> " "
      [] ct = WALL -> "#"
      [] ct = START -> "S"
      [] ct = END -> "E"

VARIABLES
    maze_file,       \* the text of the file at path_to_maze, a string of characters
    grid,            \* Maze.grid: (row, column) -> CellType
    grid_corner,     \* Maze.grid_corner: <<rows, columns>>
    start_point,     \* Maze.start_point
    bfs_solution,    \* Maze.bfs_solution: None or a path
    dfs_solution,    \* Maze.dfs_solution: None or a path
    pc,              \* the method that is running: "idle" when none is
    caller,          \* who called the running search: "direct" or "view"
    routes,          \* breadth_first_search's local routes
    route,           \* depth_first_search's local route
    possible_steps,  \* depth_first_search's local possible_steps
    status,          \* how the latest run of each search ended
    ret,             \* the latest finished call: what it returned or raised
    first_view       \* the first rendering each renderer returned

vars == <<maze_file, grid, grid_corner, start_point, bfs_solution, dfs_solution, pc, caller,
          routes, route, possible_steps, status, ret, first_view>>

maze == <<maze_file, grid, grid_corner, start_point>>
bfs_locals == <<routes>>
dfs_locals == <<route, possible_steps>>

----------------------------------------------------------------------------
\* Sequence helpers.

\* Python's "x in list".
InSeq(x, s) == \E i \in 1..Len(s) : s[i] = x

\* Python's s[-1] and s[:-1].
Last(s) == s[Len(s)]
Front(s) == SubSeq(s, 1, Len(s) - 1)

----------------------------------------------------------------------------
\* The grid.

Cells(rows, cols) == (0..(rows - 1)) \X (0..(cols - 1))

\* The grids Maze.__init__ accepts: every cell has a kind, exactly one is START.
ValidGrid(g, rows, cols, sp) ==
    /\ DOMAIN g = Cells(rows, cols)
    /\ g[sp] = START
    /\ \A p \in Cells(rows, cols) : p # sp => g[p] # START

\* A variant whose first neighbour is a diagonal one.
point_neighbours_diagonal(point) ==
    << <<point[1] + 1, point[2] + 1>>,
       <<point[1] - 1, point[2]>>,
       <<point[1], point[2] + 1>>,
       <<point[1], point[2] - 1>> >>

\* A variant that gives the right neighbour twice and the left one never.
point_neighbours_no_left(point) ==
    << <<point[1] + 1, point[2]>>,
       <<point[1] - 1, point[2]>>,
       <<point[1], point[2] + 1>>,
       <<point[1], point[2] + 1>> >>

\* The neighbours in the order right, left, down, up.
point_neighbours_right_first(point) ==
    << <<point[1], point[2] + 1>>,
       <<point[1], point[2] - 1>>,
       <<point[1] + 1, point[2]>>,
       <<point[1] - 1, point[2]>> >>

\* Maze._point_neighbours: down, up, right, left.
point_neighbours(point) ==
    << <<point[1] + 1, point[2]>>,
       <<point[1] - 1, point[2]>>,
       <<point[1], point[2] + 1>>,
       <<point[1], point[2] - 1>> >>

\* The tests both searches make of a neighbour; IsWallNever is a variant that
\* takes no cell for a wall.
OnGrid(nb_point) == nb_point \in DOMAIN grid
IsWallNever(nb_point) == FALSE
IsWall(nb_point) == grid[nb_point] = WALL
IsEnd(nb_point) == grid[nb_point] = END

\* ret while a call is running, and before the first call.
NoCall == [op |-> "none", kind |-> "none", val |-> None, searched |-> FALSE]

\* What is the same in every state before the first call of a search or a
\* renderer: no solution (lines 105-106), no call running, none finished.
Fresh ==
    /\ bfs_solution = None
    /\ dfs_solution = None
    /\ pc = "idle"
    /\ caller = "none"
    /\ routes = <<>>
    /\ route = <<>>
    /\ possible_steps = <<>>
    /\ status = [bfs |-> "never", dfs |-> "never"]
    /\ ret = NoCall
    /\ first_view = [bfs |-> None, dfs |-> None]

\* A maze text of grid g: its rows, each followed by a newline.
RECURSIVE GridText(_, _)
GridText(g, corner) ==
    IF corner[1] = 0 THEN <<>>
    ELSE GridText(g, <<corner[1] - 1, corner[2]>>)
         \o [c \in 1..corner[2] |-> CellValue(g[<<corner[1] - 1, c - 1>>])]
         \o <<"\n">>

----------------------------------------------------------------------------
\* The state after Maze.__init__ on a valid maze text.

Init ==
    /\ \E rows \in 1..MaxCells, cols \in 1..MaxCells :
         /\ rows * cols <= MaxCells
         /\ grid_corner = <<rows, cols>>
         /\ \E sp \in Cells(rows, cols) :
              /\ start_point = sp
              /\ \E g \in [Cells(rows, cols) -> CellType] :
                   /\ ValidGrid(g, rows, cols, sp)
                   /\ grid = g
    /\ maze_file = GridText(grid, grid_corner)
    /\ Fresh

----------------------------------------------------------------------------
\* breadth_first_search.

\* The inner loop over the neighbours of one route's last point, from the i-th
\* neighbour on; new_routes is the list built so far.
RECURSIVE ExpandRoute(_, _, _)
ExpandRoute(rt, i, new_routes) ==
    IF i > 4 THEN [found |-> FALSE, sol |-> None, new |-> new_routes]
    ELSE LET nb_point == point_neighbours(Last(rt))[i] IN
         IF ~OnGrid(nb_point) THEN ExpandRoute(rt, i + 1, new_routes)
         ELSE IF IsWall(nb_point) THEN ExpandRoute(rt, i + 1, new_routes)
         ELSE IF IsEnd(nb_point)
              THEN [found |-> TRUE, sol |-> Append(rt, nb_point), new |-> new_routes]
         ELSE IF InSeq(nb_point, rt) THEN ExpandRoute(rt, i + 1, new_routes)
         ELSE ExpandRoute(rt, i + 1, Append(new_routes, Append(rt, nb_point)))

\* A variant that treats the working set as a stack: it expands only the first
\* candidate and puts its extensions in front of the others.
RoundLoopStack(rs, j, new_routes) ==
    IF j > Len(rs) THEN [found |-> FALSE, sol |-> None, new |-> new_routes]
    ELSE LET r == ExpandRoute(rs[j], 1, <<>>) IN
         IF r.found THEN r
         ELSE [found |-> FALSE, sol |-> None,
               new |-> r.new \o SubSeq(rs, j + 1, Len(rs))]

\* A variant that keeps only the extensions of the last candidate expanded.
RECURSIVE RoundLoopKeepLast(_, _, _)
RoundLoopKeepLast(rs, j, new_routes) ==
    IF j > Len(rs) THEN [found |-> FALSE, sol |-> None, new |-> new_routes]
    ELSE LET r == ExpandRoute(rs[j], 1, <<>>) IN
         IF r.found THEN r ELSE RoundLoopKeepLast(rs, j + 1, r.new)

\* A variant that goes through the working set from its last route to its first.
RECURSIVE RoundLoopBackwards(_, _, _)
RoundLoopBackwards(rs, j, new_routes) ==
    IF j > Len(rs) THEN [found |-> FALSE, sol |-> None, new |-> new_routes]
    ELSE LET r == ExpandRoute(rs[Len(rs) + 1 - j], 1, new_routes) IN
         IF r.found THEN r ELSE RoundLoopBackwards(rs, j + 1, r.new)

\* One round: the loop over the routes of the working set, from the j-th on.
RECURSIVE RoundLoop(_, _, _)
RoundLoop(rs, j, new_routes) ==
    IF j > Len(rs) THEN [found |-> FALSE, sol |-> None, new |-> new_routes]
    ELSE LET r == ExpandRoute(rs[j], 1, new_routes) IN
         IF r.found THEN r ELSE RoundLoop(rs, j + 1, r.new)

\* What a finished search hands back: to its direct caller, or to the renderer
\* that called it, which goes on to render.
SearchReturns(alg, val) ==
    /\ caller' = "none"
    /\ IF caller = "view"
       THEN /\ pc' = (IF alg = "bfs" THEN "view_bfs" ELSE "view_dfs")
            /\ UNCHANGED ret
       ELSE /\ pc' = "idle"
            /\ ret' = [op |-> alg, kind |-> "return", val |-> val, searched |-> TRUE]

\* A direct call of breadth_first_search.
CallBFS ==
    /\ pc = "idle"
    /\ pc' = "bfs"
    /\ caller' = "direct"
    /\ routes' = << <<start_point>> >>
    /\ status' = [status EXCEPT !.bfs = "running"]
    /\ ret' = NoCall
    /\ UNCHANGED <<maze, bfs_solution, dfs_solution, dfs_locals, first_view>>

\* A variant that stores the path it finds in dfs_solution.
BFSRoundStoresInDfs ==
    /\ pc = "bfs"
    /\ Len(routes) > 0
    /\ LET r == RoundLoop(routes, 1, <<>>) IN
         IF r.found
         THEN /\ dfs_solution' = r.sol
              /\ routes' = <<>>
              /\ status' = [status EXCEPT !.bfs = "found"]
              /\ SearchReturns("bfs", r.sol)
         ELSE /\ routes' = r.new
              /\ UNCHANGED <<dfs_solution, status, pc, caller, ret>>
    /\ UNCHANGED <<maze, bfs_solution, dfs_locals, first_view>>

\* One pass of "while len(routes) > 0".
BFSRound ==
    /\ pc = "bfs"
    /\ Len(routes) > 0
    /\ LET r == RoundLoop(routes, 1, <<>>) IN
         IF r.found
         THEN /\ bfs_solution' = r.sol
              /\ routes' = <<>>
              /\ status' = [status EXCEPT !.bfs = "found"]
              /\ SearchReturns("bfs", r.sol)
         ELSE /\ routes' = r.new
              /\ UNCHANGED <<bfs_solution, status, pc, caller, ret>>
    /\ UNCHANGED <<maze, dfs_solution, dfs_locals, first_view>>

\* The loop ends with no route left: the message is printed, None is returned.
BFSNotFound ==
    /\ pc = "bfs"
    /\ Len(routes) = 0
    /\ status' = [status EXCEPT !.bfs = "notfound"]
    /\ SearchReturns("bfs", None)
    /\ UNCHANGED <<maze, bfs_solution, dfs_solution, routes, dfs_locals, first_view>>

----------------------------------------------------------------------------
\* depth_first_search.

\* The loop that marks the neighbours to remove, from the idx-th neighbour on.
\* It returns at the first END neighbour it meets.
RECURSIVE FilterLoop(_, _, _, _)
FilterLoop(rt, nb_points, idx, point_to_remove) ==
    IF idx > Len(nb_points)
    THEN [found |-> FALSE, sol |-> None, remove |-> point_to_remove]
    ELSE LET nb_point == nb_points[idx] IN
         IF ~OnGrid(nb_point)
         THEN FilterLoop(rt, nb_points, idx + 1, Append(point_to_remove, idx))
         ELSE IF IsWall(nb_point)
         THEN FilterLoop(rt, nb_points, idx + 1, Append(point_to_remove, idx))
         ELSE IF IsEnd(nb_point)
         THEN [found |-> TRUE, sol |-> Append(rt, nb_point), remove |-> point_to_remove]
         ELSE IF InSeq(nb_point, rt)
         THEN FilterLoop(rt, nb_points, idx + 1, Append(point_to_remove, idx))
         ELSE FilterLoop(rt, nb_points, idx + 1, point_to_remove)

\* list.pop(idx), on 1-based positions.
PopAt(s, idx) == SubSeq(s, 1, idx - 1) \o SubSeq(s, idx + 1, Len(s))

\* "for idx in point_to_remove[::-1]: nb_points.pop(idx)", from the k-th mark down.
RECURSIVE RemovePoints(_, _, _)
RemovePoints(nb_points, point_to_remove, k) ==
    IF k = 0 THEN nb_points
    ELSE RemovePoints(PopAt(nb_points, point_to_remove[k]), point_to_remove, k - 1)

\* A backtrace that drops the empty frames and leaves the route as it is.
RECURSIVE BacktraceKeepsRoute(_, _)
BacktraceKeepsRoute(rt, ps) ==
    IF Len(ps) = 0 THEN [raised |-> TRUE, route |-> rt, possible_steps |-> ps]
    ELSE IF Len(Last(ps)) # 0 THEN [raised |-> FALSE, route |-> rt, possible_steps |-> ps]
    ELSE BacktraceKeepsRoute(rt, Front(ps))

\* The backtrace loop "while len(possible_steps[-1]) == 0". Reading
\* possible_steps[-1] of an empty list raises IndexError, as does route.pop()
\* on an empty list.
RECURSIVE Backtrace(_, _)
Backtrace(rt, ps) ==
    IF Len(ps) = 0 THEN [raised |-> TRUE, route |-> rt, possible_steps |-> ps]
    ELSE IF Len(Last(ps)) # 0 THEN [raised |-> FALSE, route |-> rt, possible_steps |-> ps]
    ELSE IF Len(rt) = 0 THEN [raised |-> TRUE, route |-> rt, possible_steps |-> Front(ps)]
    ELSE Backtrace(Front(rt), Front(ps))

\* A pass that advances to the first of the valid neighbours, not the last.
DfsPassPicksFirst(rt, ps) ==
    LET f == FilterLoop(rt, point_neighbours(Last(rt)), 1, <<>>)
        nb_points == RemovePoints(point_neighbours(Last(rt)), f.remove, Len(f.remove))
        b == Backtrace(rt, ps)
        stay == [kind |-> "break", sol |-> None, route |-> rt, possible_steps |-> ps]
    IN
    IF f.found THEN [stay EXCEPT !.kind = "found", !.sol = f.sol]
    ELSE IF Len(nb_points) > 0
    THEN [stay EXCEPT !.kind = "continue",
                      !.route = Append(rt, Head(nb_points)),
                      !.possible_steps = Append(ps, Tail(nb_points))]
    ELSE IF Len(ps) > 0
    THEN IF b.raised
         THEN [stay EXCEPT !.kind = "IndexError",
                           !.route = b.route, !.possible_steps = b.possible_steps]
         ELSE IF Len(b.possible_steps) = 0
         THEN [stay EXCEPT !.route = b.route, !.possible_steps = b.possible_steps]
         ELSE [stay EXCEPT
                 !.kind = "continue",
                 !.route = Append(Front(b.route), Last(Last(b.possible_steps))),
                 !.possible_steps =
                     Append(Front(b.possible_steps), Front(Last(b.possible_steps)))]
    ELSE stay

\* One pass of the body of "while len(route) > 0", on route rt and frames ps.
DfsPass(rt, ps) ==
    LET f == FilterLoop(rt, point_neighbours(Last(rt)), 1, <<>>)
        nb_points == RemovePoints(point_neighbours(Last(rt)), f.remove, Len(f.remove))
        b == Backtrace(rt, ps)
        stay == [kind |-> "break", sol |-> None, route |-> rt, possible_steps |-> ps]
    IN
    IF f.found THEN [stay EXCEPT !.kind = "found", !.sol = f.sol]
    ELSE IF Len(nb_points) > 0
    THEN [stay EXCEPT !.kind = "continue",
                      !.route = Append(rt, Last(nb_points)),
                      !.possible_steps = Append(ps, Front(nb_points))]
    ELSE IF Len(ps) > 0
    THEN IF b.raised
         THEN [stay EXCEPT !.kind = "IndexError",
                           !.route = b.route, !.possible_steps = b.possible_steps]
         ELSE IF Len(b.possible_steps) = 0
         THEN [stay EXCEPT !.route = b.route, !.possible_steps = b.possible_steps]
         ELSE [stay EXCEPT
                 !.kind = "continue",
                 !.route = Append(Front(b.route), Last(Last(b.possible_steps))),
                 !.possible_steps =
                     Append(Front(b.possible_steps), Front(Last(b.possible_steps)))]
    ELSE stay

\* A direct call of depth_first_search.
CallDFS ==
    /\ pc = "idle"
    /\ pc' = "dfs"
    /\ caller' = "direct"
    /\ route' = <<start_point>>
    /\ possible_steps' = <<>>
    /\ status' = [status EXCEPT !.dfs = "running"]
    /\ ret' = NoCall
    /\ UNCHANGED <<maze, bfs_solution, dfs_solution, bfs_locals, first_view>>

\* A pass that advances or backtracks, and goes round the loop again.
DFSStep ==
    /\ pc = "dfs"
    /\ Len(route) > 0
    /\ LET r == DfsPass(route, possible_steps) IN
         /\ r.kind = "continue"
         /\ route' = r.route
         /\ possible_steps' = r.possible_steps
    /\ UNCHANGED <<maze, bfs_solution, dfs_solution, pc, caller, bfs_locals, status,
                   ret, first_view>>

\* A pass that meets an END neighbour: the solution is stored and returned.
DFSFound ==
    /\ pc = "dfs"
    /\ Len(route) > 0
    /\ LET r == DfsPass(route, possible_steps) IN
         /\ r.kind = "found"
         /\ dfs_solution' = r.sol
         /\ SearchReturns("dfs", r.sol)
    /\ route' = <<>>
    /\ possible_steps' = <<>>
    /\ status' = [status EXCEPT !.dfs = "found"]
    /\ UNCHANGED <<maze, bfs_solution, bfs_locals, first_view>>

\* The loop is left (its condition fails, or a break): the message is printed,
\* None is returned.
DFSNotFound ==
    /\ pc = "dfs"
    /\ \/ Len(route) = 0
       \/ Len(route) > 0 /\ DfsPass(route, possible_steps).kind = "break"
    /\ SearchReturns("dfs", None)
    /\ route' = <<>>
    /\ possible_steps' = <<>>
    /\ status' = [status EXCEPT !.dfs = "notfound"]
    /\ UNCHANGED <<maze, bfs_solution, dfs_solution, bfs_locals, first_view>>

\* A pass whose backtrace empties possible_steps: IndexError leaves
\* depth_first_search, and view_dfs when it is the caller.
DFSIndexError ==
    /\ pc = "dfs"
    /\ Len(route) > 0
    /\ DfsPass(route, possible_steps).kind = "IndexError"
    /\ pc' = "idle"
    /\ caller' = "none"
    /\ ret' = [op |-> (IF caller = "view" THEN "view_dfs" ELSE "dfs"),
               kind |-> "IndexError", val |-> None, searched |-> TRUE]
    /\ route' = <<>>
    /\ possible_steps' = <<>>
    /\ status' = [status EXCEPT !.dfs = "raised"]
    /\ UNCHANGED <<maze, bfs_solution, dfs_solution, bfs_locals, first_view>>

----------------------------------------------------------------------------
\* view_bfs and view_dfs.

\* A variant that never trusts the cached solution.
NeedsSearchAlways(solution) == TRUE

\* "if self.bfs_solution is None" / "if self.dfs_solution is None".
NeedsSearch(solution) == solution = None

\* A variant that marks only the free cells of the path, not its START and END.
RECURSIVE OverlayRowKeepsEnds(_, _, _)
OverlayRowKeepsEnds(solution, row_idx, col_idx) ==
    IF col_idx >= grid_corner[2] THEN <<"\n">>
    ELSE << IF InSeq(<<row_idx, col_idx>>, solution)
               /\ grid[<<row_idx, col_idx>>] = FREE
            THEN "*"
            ELSE CellValue(grid[<<row_idx, col_idx>>]) >>
         \o OverlayRowKeepsEnds(solution, row_idx, col_idx + 1)

\* The inner loop over the columns of one row, from col_idx on.
RECURSIVE OverlayRow(_, _, _)
OverlayRow(solution, row_idx, col_idx) ==
    IF col_idx >= grid_corner[2] THEN <<"\n">>
    ELSE << IF InSeq(<<row_idx, col_idx>>, solution)
            THEN "*"
            ELSE CellValue(grid[<<row_idx, col_idx>>]) >>
         \o OverlayRow(solution, row_idx, col_idx + 1)

\* The outer loop over the rows, from row_idx on.
RECURSIVE OverlayRows(_, _)
OverlayRows(solution, row_idx) ==
    IF row_idx >= grid_corner[1] THEN <<>>
    ELSE OverlayRow(solution, row_idx, 0) \o OverlayRows(solution, row_idx + 1)

\* The rendering loops of view_bfs / view_dfs. With solution None the first
\* "(row_idx, col_idx) in solution" raises TypeError.
Overlay(solution) ==
    IF solution = None /\ grid_corner[1] > 0 /\ grid_corner[2] > 0
    THEN [kind |-> "TypeError", val |-> None]
    ELSE [kind |-> "return", val |-> OverlayRows(solution, 0)]

\* The renderer alg ("bfs" or "dfs") renders solution and returns or raises;
\* searched tells whether this call of the renderer ran the search first.
Render(alg, solution, searched) ==
    LET out == Overlay(solution) IN
    /\ pc' = "idle"
    /\ ret' = [op |-> (IF alg = "bfs" THEN "view_bfs" ELSE "view_dfs"),
               kind |-> out.kind, val |-> out.val, searched |-> searched]
    /\ first_view' = IF out.kind = "return" /\ first_view[alg] = None
                     THEN [first_view EXCEPT ![alg] = out.val]
                     ELSE first_view

\* A call of view_bfs: it calls breadth_first_search when no solution is cached,
\* and renders the cached one otherwise.
ViewBfs ==
    /\ pc = "idle"
    /\ IF NeedsSearch(bfs_solution)
       THEN /\ pc' = "bfs"
            /\ caller' = "view"
            /\ routes' = << <<start_point>> >>
            /\ status' = [status EXCEPT !.bfs = "running"]
            /\ ret' = NoCall
            /\ UNCHANGED first_view
       ELSE /\ Render("bfs", bfs_solution, FALSE)
            /\ UNCHANGED <<caller, routes, status>>
    /\ UNCHANGED <<maze, bfs_solution, dfs_solution, dfs_locals>>

\* view_bfs goes on after breadth_first_search has returned to it.
ViewBfsRender ==
    /\ pc = "view_bfs"
    /\ Render("bfs", bfs_solution, TRUE)
    /\ UNCHANGED <<maze, bfs_solution, dfs_solution, caller, bfs_locals, dfs_locals,
                   status>>

\* A call of view_dfs.
ViewDfs ==
    /\ pc = "idle"
    /\ IF NeedsSearch(dfs_solution)
       THEN /\ pc' = "dfs"
            /\ caller' = "view"
            /\ route' = <<start_point>>
            /\ possible_steps' = <<>>
            /\ status' = [status EXCEPT !.dfs = "running"]
            /\ ret' = NoCall
            /\ UNCHANGED first_view
       ELSE /\ Render("dfs", dfs_solution, FALSE)
            /\ UNCHANGED <<caller, route, possible_steps, status>>
    /\ UNCHANGED <<maze, bfs_solution, dfs_solution, bfs_locals>>

\* view_dfs goes on after depth_first_search has returned to it.
ViewDfsRender ==
    /\ pc = "view_dfs"
    /\ Render("dfs", dfs_solution, TRUE)
    /\ UNCHANGED <<maze, bfs_solution, dfs_solution, caller, bfs_locals, dfs_locals,
                   status>>

----------------------------------------------------------------------------
\* __str__.

\* The inner loop over the columns of one row, from col_idx on.
RECURSIVE StrRow(_, _)
StrRow(row_idx, col_idx) ==
    IF col_idx >= grid_corner[2] THEN <<"\n">>
    ELSE <<CellValue(grid[<<row_idx, col_idx>>])>> \o StrRow(row_idx, col_idx + 1)

\* The outer loop over the rows, from row_idx on.
RECURSIVE StrRows(_)
StrRows(row_idx) ==
    IF row_idx >= grid_corner[1] THEN <<>>
    ELSE StrRow(row_idx, 0) \o StrRows(row_idx + 1)

\* A call of __str__.
Str ==
    /\ pc = "idle"
    /\ ret' = [op |-> "str", kind |-> "return", val |-> StrRows(0), searched |-> FALSE]
    /\ UNCHANGED <<maze, bfs_solution, dfs_solution, pc, caller, bfs_locals,
                   dfs_locals, status, first_view>>

----------------------------------------------------------------------------
Next ==
    \/ CallBFS
    \/ BFSRound
    \/ BFSNotFound
    \/ CallDFS
    \/ DFSStep
    \/ DFSFound
    \/ DFSNotFound
    \/ DFSIndexError
    \/ ViewBfs
    \/ ViewBfsRender
    \/ ViewDfs
    \/ ViewDfsRender
    \/ Str

Spec == Init /\ [][Next]_vars

\* A method that has been called runs on until it returns or raises (the
\* program is single-threaded and synchronous); nobody has to call one.
Running ==
    \/ BFSRound
    \/ BFSNotFound
    \/ DFSStep
    \/ DFSFound
    \/ DFSNotFound
    \/ DFSIndexError
    \/ ViewBfsRender
    \/ ViewDfsRender

FairSpec == Spec /\ WF_vars(Running)

----------------------------------------------------------------------------
\* Maze.__init__: from the text of the maze file to the grid, or to the
\* exception the constructor raises.

\* The characters a maze text is made of here: the four cell characters, an
\* unrecognised character, the comment character and the newline.
Chars == {" ", "#", "S", "E", "X", "/", "\n"}
Texts == UNION {[1..n -> Chars] : n \in 0..MaxTextLen}

\* str.split("\n"): the lines of text from position i on, cur being the
\* line read so far.  The text after the last newline is a line too.
RECURSIVE SplitLines(_, _, _)
SplitLines(text, i, cur) ==
    IF i > Len(text) THEN <<cur>>
    ELSE IF text[i] = "\n" THEN <<cur>> \o SplitLines(text, i + 1, <<>>)
    ELSE SplitLines(text, i + 1, Append(cur, text[i]))

\* x.startswith("//")
StartsWithComment(x) == Len(x) >= 2 /\ x[1] = "/" /\ x[2] = "/"

\* A filter that drops the empty lines only.
FilterLinesKeepsComments(lines) == SelectSeq(lines, LAMBDA x : Len(x) # 0)

\* filter(lambda x: len(x) != 0 and not x.startswith("//"), ...)
FilterLines(lines) ==
    SelectSeq(lines, LAMBDA x : Len(x) # 0 /\ ~StartsWithComment(x))

\* A lookup that takes '#' for a free cell and ' ' for a wall.
chars_to_ct_swapped(char) ==
    CASE char = " " -> WALL
      [] char = "#" -> FREE
      [] char = "S" -> START
      [] char = "E" -> END
      [] OTHER -> "KeyError"

\* chars_to_ct[char]: the member whose value is char, KeyError when none is.
chars_to_ct(char) ==
    CASE char = " " -> FREE
      [] char = "#" -> WALL
      [] char = "S" -> START
      [] char = "E" -> END
      [] OTHER -> "KeyError"

\* A position with the column before the row.
ErrorPositionColumnFirst(line_idx, char_idx) == <<char_idx, line_idx>>

\* The position an exception of the scan carries: (line_idx, char_idx).
ErrorPosition(line_idx, char_idx) == <<line_idx, char_idx>>

\* What the constructor ends with: kind is "ok" or the exception's name.
Built(kind, val, g, corner, sp) ==
    [kind |-> kind, val |-> val, grid |-> g, grid_corner |-> corner,
     start_point |-> sp]

\* The two loops over the characters, from (line_idx, char_idx) on, with the
\* grid g and the start point sp found so far, and the check after them.
RECURSIVE Scan(_, _, _, _, _)
Scan(raw_maze, line_idx, char_idx, g, sp) ==
    LET corner == <<Len(raw_maze), Len(raw_maze[1])>> IN
    IF line_idx >= Len(raw_maze) THEN
        IF sp = None THEN Built("NoStartError", None, g, corner, sp)
        ELSE Built("ok", None, g, corner, sp)
    ELSE IF char_idx >= Len(raw_maze[line_idx + 1]) THEN
        Scan(raw_maze, line_idx + 1, 0, g, sp)
    ELSE
        LET char == raw_maze[line_idx + 1][char_idx + 1]
            ct == chars_to_ct(char)
            here == <<line_idx, char_idx>>
        IN  IF ct = "KeyError" THEN
                Built("InvalidMazeChar",
                      <<char, ErrorPosition(line_idx, char_idx)>>, g, corner, sp)
            ELSE IF ct = START /\ sp # None THEN
                Built("MultipleStartError",
                      <<ErrorPosition(line_idx, char_idx)>>, g, corner, sp)
            ELSE Scan(raw_maze, line_idx, char_idx + 1,
                      [p \in DOMAIN g \cup {here} |-> IF p = here THEN ct ELSE g[p]],
                      IF ct = START THEN here ELSE sp)

\* The constructor on a text.
Parse(text) ==
    LET raw_maze == FilterLines(SplitLines(text, 1, <<>>)) IN
    IF \E i \in 1..Len(raw_maze) : Len(raw_maze[i]) # Len(raw_maze[1]) THEN
        Built("AssertionError", None, <<>>, <<0, 0>>, None)
    ELSE IF Len(raw_maze) = 0 THEN
        Built("IndexError", None, <<>>, <<0, 0>>, None)
    ELSE Scan(raw_maze, 0, 0, <<>>, None)

\* Before the constructor has run on a text: there is no object yet.
NoObject ==
    /\ grid = <<>>
    /\ grid_corner = <<0, 0>>
    /\ start_point = None
    /\ bfs_solution = None
    /\ dfs_solution = None
    /\ pc = "new"
    /\ caller = "none"
    /\ routes = <<>>
    /\ route = <<>>
    /\ possible_steps = <<>>
    /\ status = [bfs |-> "never", dfs |-> "never"]
    /\ ret = NoCall
    /\ first_view = [bfs |-> None, dfs |-> None]

\* Any text of at most MaxTextLen characters, not yet constructed from.
ParseInit ==
    /\ maze_file \in Texts
    /\ NoObject

\* Maze(path_to_maze): the object, or the exception and no object.
Construct ==
    /\ pc = "new"
    /\ LET built == Parse(maze_file) IN
        IF built.kind = "ok" THEN
            /\ grid' = built.grid
            /\ grid_corner' = built.grid_corner
            /\ start_point' = built.start_point
            /\ pc' = "idle"
            /\ ret' = [op |-> "init", kind |-> "return", val |-> None,
                       searched |-> FALSE]
        ELSE
            /\ pc' = "failed"
            /\ ret' = [op |-> "init", kind |-> built.kind, val |-> built.val,
                       searched |-> FALSE]
            /\ UNCHANGED <<grid, grid_corner, start_point>>
    /\ UNCHANGED <<maze_file, bfs_solution, dfs_solution, caller, bfs_locals,
                   dfs_locals, status, first_view>>

ParseNext ==
    \/ Construct
    \/ Str

ParseSpec == ParseInit /\ [][ParseNext]_vars

\* The 3x3 example maze: rows "S  ", " # ", "  E".
ExampleMaze ==
    <<"S", " ", " ", "\n",
      " ", "#", " ", "\n",
      " ", " ", "E", "\n">>

\* The example maze as a file, alone or under a comment line.
ExampleInit ==
    /\ maze_file \in {ExampleMaze, <<"/", "/", "\n">> \o ExampleMaze}
    /\ NoObject

\* What a program can do with the example maze: construct it, search it
\* (an END is reachable, so no search ends without a path) and render it.
ExampleNext ==
    \/ Construct
    \/ Str
    \/ CallBFS
    \/ BFSRound
    \/ CallDFS
    \/ DFSStep
    \/ DFSFound
    \/ ViewBfs
    \/ ViewBfsRender
    \/ ViewDfs
    \/ ViewDfsRender

ExampleSpec == ExampleInit /\ [][ExampleNext]_vars

----------------------------------------------------------------------------
\* What the claims speak of, defined on the grid alone.

Abs(n) == IF n < 0 THEN -n ELSE n

\* Grid adjacency: Manhattan distance 1.
Adjacent(p, q) == Abs(p[1] - q[1]) + Abs(p[2] - q[2]) = 1

\* The cells that are not walls, and the END cells.
Open == {p \in DOMAIN grid : grid[p] # WALL}
Ends == {p \in DOMAIN grid : grid[p] = END}

\* The number of moves of a shortest 4-adjacent wall-avoiding walk from the
\* cells of frontier to an END, given that the cells of seen are d moves or
\* less from START; -1 when no END can be reached.
RECURSIVE MovesToEnd(_, _, _)
MovesToEnd(frontier, seen, d) ==
    IF frontier \cap Ends # {} THEN d
    ELSE IF frontier = {} THEN -1
    ELSE LET next == {q \in Open \ seen : \E p \in frontier : Adjacent(p, q)}
         IN  MovesToEnd(next, seen \cup next, d + 1)

ShortestMoves == MovesToEnd({start_point}, {start_point}, 0)
EndReachable == ShortestMoves # -1

\* The cells START can reach.
RECURSIVE Grow(_)
Grow(seen) ==
    LET more == seen \cup {q \in Open : \E p \in seen : Adjacent(p, q)}
    IN  IF more = seen THEN seen ELSE Grow(more)

Reached == Grow({start_point})

\* A path as the data model defines it.
IsPath(path) ==
    /\ Len(path) >= 1
    /\ path[1] = start_point
    /\ Last(path) \in DOMAIN grid
    /\ grid[Last(path)] = END
    /\ \A i \in 1..(Len(path) - 1) : Adjacent(path[i], path[i + 1])
    /\ \A i \in 1..Len(path) : path[i] \in DOMAIN grid /\ grid[path[i]] # WALL
    /\ \A i, j \in 1..Len(path) : i # j => path[i] # path[j]

Halted(alg) == status[alg] \in {"found", "notfound", "raised"}

----------------------------------------------------------------------------
\* C1: every path breadth_first_search or depth_first_search returns (and
\* stores) starts at start_point, ends on an END cell, moves between cells at
\* Manhattan distance 1, stays on the grid and off the walls, and repeats no
\* position.
C1_ReturnedPathsAreValid ==
    /\ bfs_solution # None => IsPath(bfs_solution)
    /\ dfs_solution # None => IsPath(dfs_solution)
    /\ (ret.op = "bfs" /\ ret.val # None) => ret.val = bfs_solution
    /\ (ret.op = "dfs" /\ ret.val # None) => ret.val = dfs_solution

\* Both searches have returned a path, the breadth-first one of five cells or more.
C1_Witness ==
    /\ bfs_solution # None
    /\ dfs_solution # None
    /\ Len(bfs_solution) >= 5

\* C2: when an END is reachable, the path breadth_first_search returns is a
\* shortest one: no 4-adjacent wall-avoiding walk from START to an END has
\* fewer moves.
C2_BfsPathIsShortest ==
    (Halted("bfs") /\ EndReachable) =>
        /\ bfs_solution # None
        /\ Len(bfs_solution) = ShortestMoves + 1

\* breadth_first_search has returned a path of three moves or more on a grid
\* with several END cells.
C2_Witness ==
    /\ status.bfs = "found"
    /\ Len(bfs_solution) >= 4
    /\ Cardinality(Ends) >= 2

\* C3: when no END is reachable, depth_first_search reports NotFound: it ends
\* without an exception, returns None and leaves dfs_solution unset.
C3_DfsReportsNotFound ==
    (Halted("dfs") /\ ~EndReachable) =>
        /\ status.dfs = "notfound"
        /\ dfs_solution = None

\* C4: when no END is reachable, view_bfs and view_dfs return a rendering
\* instead of raising.
C4_ViewsHandleNotFound ==
    (ret.op \in {"view_bfs", "view_dfs"} /\ ~EndReachable) => ret.kind = "return"

\* C5: both searches are complete: each returns a path whenever an END is
\* reachable, and reports NotFound only when none is.
C5_SearchesAreComplete ==
    /\ \A alg \in {"bfs", "dfs"} :
         Halted(alg) =>
            /\ EndReachable => status[alg] = "found"
            /\ status[alg] = "notfound" => ~EndReachable
    /\ status.bfs = "found" => bfs_solution # None
    /\ status.dfs = "found" => dfs_solution # None

\* Both searches have found an END that is three moves or more away.
C5_Witness ==
    /\ status.bfs = "found"
    /\ status.dfs = "found"
    /\ ShortestMoves >= 3

\* C6: on every grid each search halts with a path or with the NotFound
\* outcome: a search that has left its loop has returned a path or None.
C6_SearchesHaltWithPathOrNotFound ==
    \A alg \in {"bfs", "dfs"} : Halted(alg) => status[alg] \in {"found", "notfound"}

\* Each running search eventually leaves its loop, depth_first_search possibly
\* by the IndexError of its backtrace.
SearchLoopsAreLeft ==
    /\ (status.bfs = "running") ~> Halted("bfs")
    /\ (status.dfs = "running") ~> Halted("dfs")

\* C7: when no END is reachable, breadth_first_search ends with its working
\* set empty and reports NotFound: it returns None, raises nothing and leaves
\* bfs_solution unset.
C7_BfsReportsNotFound ==
    (Halted("bfs") /\ ~EndReachable) =>
        /\ status.bfs = "notfound"
        /\ routes = <<>>
        /\ bfs_solution = None
        /\ ret.op = "bfs" => (ret.kind = "return" /\ ret.val = None)

\* breadth_first_search has reported NotFound after exploring four cells or more.
C7_Witness ==
    /\ status.bfs = "notfound"
    /\ ret.op = "bfs"
    /\ Cardinality(Reached) >= 4

\* C8: when both searches return a path, the breadth-first path is no longer
\* than the depth-first path.
C8_BfsNotLongerThanDfs ==
    (bfs_solution # None /\ dfs_solution # None) =>
        Len(bfs_solution) <= Len(dfs_solution)

\* The depth-first path is strictly longer than the breadth-first path.
C8_Witness ==
    /\ bfs_solution # None
    /\ dfs_solution # None
    /\ Len(bfs_solution) < Len(dfs_solution)

\* C9: once a solution is cached, a call of the matching renderer returns at
\* once without calling the search, returns the rendering the renderer
\* returned first, and leaves the cached path as it is.
C9_CachedRenderingIsStable ==
    [][ /\ (bfs_solution # None /\ ViewBfs) =>
              /\ pc' = "idle"
              /\ ret'.op = "view_bfs" /\ ret'.kind = "return" /\ ~ret'.searched
              /\ first_view.bfs # None => ret'.val = first_view.bfs
              /\ bfs_solution' = bfs_solution
              /\ status' = status
        /\ (dfs_solution # None /\ ViewDfs) =>
              /\ pc' = "idle"
              /\ ret'.op = "view_dfs" /\ ret'.kind = "return" /\ ~ret'.searched
              /\ first_view.dfs # None => ret'.val = first_view.dfs
              /\ dfs_solution' = dfs_solution
              /\ status' = status
      ]_vars

\* view_dfs has returned a rendering of the cached path without searching, on a
\* grid where the two cached paths differ.
C9_Witness ==
    /\ ret.op = "view_dfs"
    /\ ret.kind = "return"
    /\ ~ret.searched
    /\ ret.val = first_view.dfs
    /\ bfs_solution # None
    /\ bfs_solution # dfs_solution

\* C10: over any sequence of render and search requests, each search is
\* computed at most once: a search that has run is never started again.
C10_SearchComputedAtMostOnce ==
    [][ \A alg \in {"bfs", "dfs"} : Halted(alg) => status'[alg] # "running" ]_vars

\* C11: a rendering view_bfs / view_dfs returns holds one character per cell
\* in row-major order, each row followed by a newline; the cell shows "*"
\* exactly when its position is in the path, START and END included, and
\* otherwise the character __str__ gives it, the character of its kind.
C11_OverlayMarksExactlyThePath ==
    (ret.op \in {"view_bfs", "view_dfs"} /\ ret.kind = "return") =>
        LET path == IF ret.op = "view_bfs" THEN bfs_solution ELSE dfs_solution
            rows == grid_corner[1]
            cols == grid_corner[2]
            base == StrRows(0)
        IN  /\ Len(ret.val) = rows * (cols + 1)
            /\ Len(base) = rows * (cols + 1)
            /\ \A r \in 0..(rows - 1) :
                 /\ ret.val[r * (cols + 1) + cols + 1] = "\n"
                 /\ \A c \in 0..(cols - 1) :
                      LET i == r * (cols + 1) + c + 1 IN
                      /\ base[i] = CellValue(grid[<<r, c>>])
                      /\ base[i] # "*"
                      /\ ret.val[i] = IF InSeq(<<r, c>>, path) THEN "*" ELSE base[i]

\* view_dfs has returned a rendering in which some cell is marked and some
\* cell on two rows or more is not.
C11_Witness ==
    /\ ret.op = "view_dfs"
    /\ ret.kind = "return"
    /\ grid_corner[1] >= 2
    /\ \E i \in 1..Len(ret.val) : ret.val[i] = " "
    /\ \E i \in 1..Len(ret.val) : ret.val[i] = "#"
    /\ Len(dfs_solution) >= 4

\* C12: no call of a search, a renderer or __str__ changes the grid, its
\* dimensions or start_point; bfs_solution changes only in a step of
\* breadth_first_search and dfs_solution only in a step of depth_first_search.
C12_OnlyTheCachesChange ==
    [][ /\ grid' = grid
        /\ grid_corner' = grid_corner
        /\ start_point' = start_point
        /\ bfs_solution' # bfs_solution => pc = "bfs"
        /\ dfs_solution' # dfs_solution => pc = "dfs"
      ]_vars

\* __str__ has been called after both searches have stored a path.
C12_Witness ==
    /\ ret.op = "str"
    /\ bfs_solution # None
    /\ dfs_solution # None


\* C13 as stated: view_bfs on the example maze marks (0,0), (0,1), (0,2),
\* (1,2), (2,2) with '*' and leaves every other cell's character.
C13_StarsAlongTopAndRight ==
    (ret.op = "view_bfs" /\ ret.kind = "return") =>
        ret.val = <<"*", "*", "*", "\n",
                    " ", "#", "*", "\n",
                    " ", " ", "*", "\n">>

\* C13, amended: view_bfs on the example maze marks exactly (0,0), (1,0),
\* (2,0), (2,1), (2,2) with '*'; (0,1), (0,2), (1,2) keep their blank and
\* (1,1) stays '#'.
C13_StarsAlongLeftAndBottom ==
    (ret.op = "view_bfs" /\ ret.kind = "return") =>
        /\ bfs_solution = << <<0, 0>>, <<1, 0>>, <<2, 0>>, <<2, 1>>, <<2, 2>> >>
        /\ ret.val = <<"*", " ", " ", "\n",
                       "*", "#", " ", "\n",
                       "*", "*", "*", "\n">>

C13_Witness ==
    /\ ret.op = "view_bfs"
    /\ ret.kind = "return"
    /\ ret.searched
    /\ GridText(grid, grid_corner) = ExampleMaze

----------------------------------------------------------------------------
\* Vocabulary of the claims about construction.

\* The least of a non-empty set of numbers.
Min(S) == CHOOSE x \in S : \A y \in S : x <= y

\* The lines of a text: what stands between its newlines.
RECURSIVE LinesOf(_)
LinesOf(text) ==
    LET newlines == {i \in 1..Len(text) : text[i] = "\n"} IN
    IF newlines = {} THEN <<text>>
    ELSE <<SubSeq(text, 1, Min(newlines) - 1)>>
         \o LinesOf(SubSeq(text, Min(newlines) + 1, Len(text)))

\* A comment line begins with two slashes.
IsCommentLine(line) == Len(line) >= 2 /\ SubSeq(line, 1, 2) = <<"/", "/">>

\* The grid rows of the text: its lines that are neither empty nor comments.
IsGridRow(line) == line # <<>> /\ ~IsCommentLine(line)
GridRows == SelectSeq(LinesOf(maze_file), IsGridRow)

\* How many times char occurs in the sequence of characters s.
Count(char, s) == Cardinality({i \in 1..Len(s) : s[i] = char})

\* The grid rows one after the other, in row-major scan order.
RECURSIVE Flat(_)
Flat(rows) == IF rows = <<>> THEN <<>> ELSE Head(rows) \o Flat(Tail(rows))

\* The rows have one length.
SameLength(rows) == \A i \in 1..Len(rows) : Len(rows[i]) = Len(rows[1])

\* The (row, column) of the k-th character (from 1) of the flattened rows.
PositionOf(k, rows) == <<(k - 1) \div Len(rows[1]), (k - 1) % Len(rows[1])>>

CellChars == {" ", "#", "S", "E"}

\* C14: a text without 'S' -- its rows of one length and of cell characters
\* only, or no row at all -- fails construction with NoStartError.
C14_NoStartGivesNoStartError ==
    (/\ ret.op = "init"
     /\ Count("S", maze_file) = 0
     /\ SameLength(GridRows)
     /\ \A i \in 1..Len(Flat(GridRows)) : Flat(GridRows)[i] \in CellChars)
        => ret.kind = "NoStartError"

\* Where the second 'S' stands in the flattened rows (from 1).
SecondStart(rows) ==
    LET starts == {k \in 1..Len(Flat(rows)) : Flat(rows)[k] = "S"}
    IN  Min(starts \ {Min(starts)})

\* C15 as stated: a text with two 'S' among its grid rows fails construction
\* with MultipleStartError carrying the position of the second 'S'.
C15_TwoStartsGiveMultipleStartError ==
    (ret.op = "init" /\ Count("S", Flat(GridRows)) = 2) =>
        /\ ret.kind = "MultipleStartError"
        /\ ret.val = <<PositionOf(SecondStart(GridRows), GridRows)>>

\* C15, amended: a text whose grid rows have one length and hold two or more
\* 'S', with no unrecognised character before the second 'S' in row-major
\* order, fails construction with MultipleStartError carrying the (row,
\* column) of the second 'S', rows counted without the comment and empty lines.
C15_SecondStartIsReported ==
    (/\ ret.op = "init"
     /\ SameLength(GridRows)
     /\ Count("S", Flat(GridRows)) >= 2
     /\ \A k \in 1..SecondStart(GridRows) : Flat(GridRows)[k] \in CellChars)
        => /\ ret.kind = "MultipleStartError"
           /\ ret.val = <<PositionOf(SecondStart(GridRows), GridRows)>>

C15_Witness ==
    /\ ret.op = "init"
    /\ ret.kind = "MultipleStartError"
    /\ ret.val = << <<1, 0>> >>
    /\ IsCommentLine(LinesOf(maze_file)[1])

\* Where the first 'X' stands in the flattened rows (from 1).
FirstX(rows) == Min({k \in 1..Len(Flat(rows)) : Flat(rows)[k] = "X"})

\* C16 as stated: a text with an 'X' among its grid rows fails construction
\* with InvalidMazeChar carrying 'X' and the position of that 'X'.
C16_AnyXGivesInvalidMazeChar ==
    (ret.op = "init" /\ Count("X", Flat(GridRows)) >= 1) =>
        /\ ret.kind = "InvalidMazeChar"
        /\ ret.val = <<"X", PositionOf(FirstX(GridRows), GridRows)>>

\* C16, amended: a text whose grid rows have one length and whose first
\* unrecognised character in row-major order is an 'X' with fewer than two
\* 'S' before it fails construction with InvalidMazeChar carrying 'X' and
\* the (row, column) of that 'X', rows counted without the comment and
\* empty lines.
C16_FirstUnrecognisedIsReported ==
    (/\ ret.op = "init"
     /\ SameLength(GridRows)
     /\ Count("X", Flat(GridRows)) >= 1
     /\ \A k \in 1..(FirstX(GridRows) - 1) : Flat(GridRows)[k] \in CellChars
     /\ Count("S", SubSeq(Flat(GridRows), 1, FirstX(GridRows))) < 2)
        => /\ ret.kind = "InvalidMazeChar"
           /\ ret.val = <<"X", PositionOf(FirstX(GridRows), GridRows)>>

C16_Witness ==
    /\ ret.op = "init"
    /\ ret.kind = "InvalidMazeChar"
    /\ ret.val = <<"X", <<1, 0>> >>
    /\ IsCommentLine(LinesOf(maze_file)[1])

\* The rows with a newline between each two of them.
RECURSIVE Joined(_)
Joined(rows) ==
    IF Len(rows) <= 1 THEN Flat(rows)
    ELSE Head(rows) \o <<"\n">> \o Joined(Tail(rows))

\* The rows, each followed by a newline.
RECURSIVE Terminated(_)
Terminated(rows) ==
    IF rows = <<>> THEN <<>>
    ELSE Head(rows) \o <<"\n">> \o Terminated(Tail(rows))

\* C17 as stated: __str__ of a maze constructed from a text gives the grid
\* rows of the text, in order, joined by newlines.
C17_StrJoinsTheRows ==
    (ret.op = "str" /\ ret.kind = "return") => ret.val = Joined(GridRows)

\* C17, amended: __str__ of a maze constructed from a text gives the grid
\* rows of the text (comment and empty lines removed), unchanged and in
\* order, each row followed by a newline.
C17_StrTerminatesTheRows ==
    (ret.op = "str" /\ ret.kind = "return") => ret.val = Terminated(GridRows)

C17_Witness ==
    /\ ret.op = "str"
    /\ ret.kind = "return"
    /\ Len(GridRows) >= 2
    /\ \E i \in 1..Len(LinesOf(maze_file)) : IsCommentLine(LinesOf(maze_file)[i])
    /\ Count("#", maze_file) >= 1

----------------------------------------------------------------------------
\* Vocabulary of the claims about the order in which the searches work.

\* The four moves in the neighbour order: down, up, right, left.
Moves == << <<1, 0>>, <<-1, 0>>, <<0, 1>>, <<0, -1>> >>
Moved(p, k) == <<p[1] + Moves[k][1], p[2] + Moves[k][2]>>

\* A recursive depth-first search with backtracking, from the route rt:
\* the route plus the first END neighbour of its last position; otherwise
\* the first success among the non-wall neighbours not in rt, tried from the
\* k-th down to the first (left, right, up, down); None when all fail.
RECURSIVE RecDfs(_)
RECURSIVE RecDfsTry(_, _)
RecDfs(rt) ==
    LET ends == {k \in 1..4 : Moved(Last(rt), k) \in Ends} IN
    IF ends # {} THEN Append(rt, Moved(Last(rt), Min(ends)))
    ELSE RecDfsTry(rt, 4)

RecDfsTry(rt, k) ==
    IF k = 0 THEN None
    ELSE IF Moved(Last(rt), k) \in Open /\ ~InSeq(Moved(Last(rt), k), rt)
    THEN LET found == RecDfs(Append(rt, Moved(Last(rt), k))) IN
         IF found # None THEN found ELSE RecDfsTry(rt, k - 1)
    ELSE RecDfsTry(rt, k - 1)

\* C18: when an END is reachable, a finished depth_first_search has found
\* exactly the path of the recursive backtracking search from start_point.
C18_DfsIsRecursiveBacktracking ==
    (Halted("dfs") /\ EndReachable) =>
        /\ status.dfs = "found"
        /\ dfs_solution = RecDfs(<<start_point>>)

\* A search that went into a branch, came back, and found the END along a
\* neighbour that is earlier in the order.
C18_Witness ==
    /\ status.dfs = "found"
    /\ ret.op = "dfs"
    /\ ret.val = dfs_solution
    /\ Len(dfs_solution) >= 4
    /\ \E j, k \in 1..4 :
         /\ j < k
         /\ Moved(start_point, j) = dfs_solution[2]
         /\ Moved(start_point, k) \in Open

\* C19: whenever depth_first_search is at the head of its loop, the route is
\* not empty and begins with start_point, and possible_steps holds one frame
\* for each route position after the first.
C19_OneFramePerRoutePosition ==
    pc = "dfs" =>
        /\ Len(route) >= 1
        /\ route[1] = start_point
        /\ Len(possible_steps) = Len(route) - 1

\* A loop head reached by backtracking: the route leaves start_point by a
\* neighbour that was a waiting alternative, the later one having been tried.
C19_Witness ==
    /\ pc = "dfs"
    /\ Len(route) >= 3
    /\ \E j, k \in 1..4 :
         /\ j < k
         /\ Moved(start_point, j) = route[2]
         /\ Moved(start_point, k) \in Open
         /\ ~InSeq(Moved(start_point, k), possible_steps[1])

\* The wall-free, END-free, repetition-free paths of n positions from
\* start_point, as a set.
RECURSIVE Paths(_)
Paths(n) ==
    IF n = 1 THEN {<<start_point>>}
    ELSE {Append(pq[1], pq[2]) :
             pq \in {x \in Paths(n - 1) \X (Open \ Ends) :
                        /\ Adjacent(Last(x[1]), x[2])
                        /\ ~InSeq(x[2], x[1])}}

\* The paths of the least number of positions from start_point to an END.
EndPaths ==
    {Append(pq[1], pq[2]) :
        pq \in {x \in Paths(ShortestMoves) \X Ends : Adjacent(Last(x[1]), x[2])}}

\* The move that leads from p to the adjacent q, as its place in the order.
MoveOf(p, q) == CHOOSE k \in 1..4 : Moved(p, k) = q

\* Path a comes before path b, of the same length and start, when at the
\* first position where they part a makes the earlier move.
LexLess(a, b) ==
    \E i \in 2..Len(a) :
        /\ SubSeq(a, 1, i - 1) = SubSeq(b, 1, i - 1)
        /\ MoveOf(a[i - 1], a[i]) < MoveOf(b[i - 1], b[i])

\* The sequence rs lists the set S, each member once, in lexicographic order.
ListsInOrder(rs, S) ==
    /\ {rs[i] : i \in 1..Len(rs)} = S
    /\ \A i, j \in 1..Len(rs) : i < j => LexLess(rs[i], rs[j])

\* C20: every step that leaves breadth_first_search at the head of its loop
\* leaves in routes exactly the wall-free, END-free, repetition-free paths
\* from start_point of one more position than before (of one position on
\* entry), in lexicographic order of their moves (down, up, right, left);
\* and a step that returns a path returns the lexicographically first of the
\* shortest paths to an END.
C20_WorkingSetIsLexOrdered ==
    [][ /\ pc' = "bfs" =>
             ListsInOrder(routes', Paths(IF pc = "bfs" THEN Len(routes[1]) + 1 ELSE 1))
        /\ (pc = "bfs" /\ status'.bfs = "found") =>
             /\ bfs_solution' \in EndPaths
             /\ \A path \in EndPaths \ {bfs_solution'} : LexLess(bfs_solution', path)
      ]_vars

\* A search that returned one of several shortest paths.
C20_Witness ==
    /\ status.bfs = "found"
    /\ ret.op = "bfs"
    /\ ret.val = bfs_solution
    /\ Len(bfs_solution) >= 4
    /\ Cardinality(EndPaths) >= 2
====
